---- MODULE Spec2Model ----
(***************************************************************************)
(* Model of phaseret/phaser.py: InitialState (input preparation with lazy  *)
(* derivation) and Phaser (ER / HIO iterations, the Fourier projection of  *)
(* _phase, shrink_wrap and the monitoring lists).                          *)
(*                                                                         *)
(* numpy arrays are objects on a heap: a field of InitialState or Phaser   *)
(* holds a reference, `a[:] = v` writes through the reference, and         *)
(* `lambda x: x` / np.asarray hand the same reference on, while            *)
(* np.fft.fftshift / ifftshift (np.roll) build a new array.                *)
(*                                                                         *)
(* The grid is one axis of two points, where the discrete Fourier          *)
(* transform of a real field is real: numbers are exact rationals <<n, d>> *)
(* and a phase is 0 or pi.  NaN is <<0, 0>>.  A Euclidean norm is kept as  *)
(* the radicand [sqrt |-> q].                                              *)
(***************************************************************************)
EXTENDS Integers, Sequences, FiniteSets, TLC

VARIABLES heap, ist, given, phasers, handle, outcome, nderive, nsteps,
          nmut, last

vars == <<heap, ist, given, phasers, handle, outcome, nderive, nsteps,
          nmut, last>>

(***************************************************************************)
(* Bounds of the exploration.                                              *)
(***************************************************************************)
MaxSteps == 2
MaxLoops == 2
MaxDerive == 2
MaxMutations == 1

(***************************************************************************)
(* Exact rational arithmetic standing for numpy's float arithmetic.        *)
(***************************************************************************)
RECURSIVE Gcd(_, _)
Gcd(a, b) == IF b = 0 THEN a ELSE Gcd(b, a % b)

IAbs(n) == IF n < 0 THEN -n ELSE n

Rat(n, d) ==
    LET g == Gcd(IAbs(n), IAbs(d))
        s == IF d < 0 THEN -1 ELSE 1
    IN  <<(s * n) \div g, (s * d) \div g>>

NaN == <<0, 0>>
RZero == <<0, 1>>
ROne == <<1, 1>>

RAdd(x, y) ==
    LET g == Gcd(x[2], y[2])
    IN  Rat(x[1] * (y[2] \div g) + y[1] * (x[2] \div g), (x[2] \div g) * y[2])
RNeg(x) == <<-x[1], x[2]>>
RSub(x, y) == RAdd(x, RNeg(y))
RMul(x, y) ==
    LET g1 == Gcd(IAbs(x[1]), y[2])
        g2 == Gcd(IAbs(y[1]), x[2])
    IN  <<(x[1] \div g1) * (y[1] \div g2), (x[2] \div g2) * (y[2] \div g1)>>
RLess(x, y) == x[1] * y[2] < y[1] * x[2]
RAbs(x) == <<IAbs(x[1]), x[2]>>
RInt(k) == <<k, 1>>

\* np.isfinite / np.isnan on one entry
isfinite(x) == x[2] # 0
isnan(x) == x[2] = 0

(***************************************************************************)
(* The grid and whole-array helpers.                                       *)
(***************************************************************************)
Grid == {0, 1}
AxisLen == Cardinality(Grid)

\* a new array holding the values of f, computed once
RECURSIVE Stored(_, _)
Stored(S, f) ==
    LET g == CHOOSE x \in S : TRUE
    IN  IF S = {g} THEN g :> f[g] ELSE (g :> f[g]) @@ Stored(S \ {g}, f)

ndarray(f) == Stored(Grid, f)

RECURSIVE SumOver(_, _)
SumOver(S, f) ==
    IF S = {} THEN RZero
    ELSE LET g == CHOOSE x \in S : TRUE
         IN  RAdd(f[g], SumOver(S \ {g}, f))

RECURSIVE MaxOver(_, _)
MaxOver(S, f) ==
    LET g == CHOOSE x \in S : TRUE
    IN  IF S = {g} THEN f[g]
        ELSE LET m == MaxOver(S \ {g}, f)
             IN  IF RLess(m, f[g]) THEN f[g] ELSE m

\* np.fft.fftshift: np.roll by n // 2, into a new array
fftshift(a) == ndarray([j \in Grid |-> a[(j - (AxisLen \div 2)) % AxisLen]])
\* np.fft.ifftshift: np.roll by -(n // 2), into a new array
ifftshift(a) == ndarray([j \in Grid |-> a[(j + (AxisLen \div 2)) % AxisLen]])

\* exp(-2 pi i k n / 2) on the two-point axis
Twiddle(k, n) == IF (k * n) % 2 = 0 THEN ROne ELSE RNeg(ROne)

fftn(a) ==
    ndarray([k \in Grid |-> SumOver(Grid, [n \in Grid |-> RMul(a[n], Twiddle(k, n))])])
ifftn(h) ==
    ndarray([n \in Grid |->
        RMul(Rat(1, AxisLen), SumOver(Grid, [k \in Grid |-> RMul(h[k], Twiddle(k, n))]))])

\* np.angle of a real number: 0 for x >= 0, pi for x < 0
angle(x) == IF RLess(x, RZero) THEN "pi" ELSE "0"
\* exp(1j * phase)
exp1j(p) == IF p = "pi" THEN RNeg(ROne) ELSE ROne

\* np.linalg.norm over the entries selected by sel, as its radicand
norm(f, sel) == [sqrt |-> SumOver({g \in Grid : sel[g]}, [g \in Grid |-> RMul(f[g], f[g])])]

\* ndarray.sum() of a boolean array
CountTrue(b) == Cardinality({g \in Grid : b[g]})

Zeros == [g \in Grid |-> RZero]

\* xp.where(cond, a, b), elementwise, into a new array
where(cond, a, b) == ndarray([g \in Grid |-> IF cond[g] THEN a[g] ELSE b[g]])

(***************************************************************************)
(* Phaser: the monitoring lists.  tr holds _suppS_l, _distF_l, _distR_l    *)
(* and the order in which entries were appended to them.                   *)
(***************************************************************************)
NoTraces == [suppS |-> <<>>, distF |-> <<>>, distR |-> <<>>, log |-> <<>>]

\* a support-size monitor that records nothing
monitor_support_silent(tr, support) == tr

monitor_support(tr, support) ==
    [tr EXCEPT !.suppS = Append(@, CountTrue(support)),
               !.log = Append(@, "suppS")]

\* norm((|rho_hat| - amplitudes)[amp_mask]) / n_values
monitor_Fourier(tr, rho_hat, amplitudes, amp_mask, n_values) ==
    LET diff == [k \in Grid |->
                    IF amp_mask[k] THEN RSub(RAbs(rho_hat[k]), amplitudes[k])
                    ELSE RZero]
    IN  [tr EXCEPT !.distF = Append(@, [sqrt |-> norm(diff, amp_mask).sqrt,
                                        over |-> n_values]),
                   !.log = Append(@, "distF")]

\* a real-space monitor that measures inside the support
monitor_real_inside(tr, rho_mod, support_star) ==
    [tr EXCEPT !.distR = Append(@, norm(rho_mod, support_star)),
               !.log = Append(@, "distR")]

\* norm(rho_mod[~support_star])
monitor_real(tr, rho_mod, support_star) ==
    [tr EXCEPT !.distR = Append(@, norm(rho_mod, [g \in Grid |-> ~support_star[g]])),
               !.log = Append(@, "distR")]

\* a projection that zeroes the modes without a measurement
FourierModulusZeroFill(amp_mask, amplitudes, rho_hat) ==
    LET phases == [k \in Grid |-> angle(rho_hat[k])]
    IN  ndarray([k \in Grid |->
            IF amp_mask[k] THEN RMul(amplitudes[k], exp1j(phases[k]))
            ELSE RZero])

(***************************************************************************)
(* Phaser._phase: the Fourier projection.  eng is the engine as one call   *)
(* sees it: the contents of its arrays and its scalar fields.              *)
(***************************************************************************)
\* xp.where(amp_mask, amplitudes * exp(1j * phases), rho_hat)
FourierModulus(amp_mask, amplitudes, rho_hat) ==
    LET phases == [k \in Grid |-> angle(rho_hat[k])]
    IN  ndarray([k \in Grid |->
            IF amp_mask[k] THEN RMul(amplitudes[k], exp1j(phases[k]))
            ELSE rho_hat[k]])

phase(eng) ==
    LET tr1 == IF eng.monitor THEN monitor_support(eng.tr, eng.support) ELSE eng.tr
        rho_hat == fftn(eng.rho)
        tr2 == IF eng.monitor
               THEN monitor_Fourier(tr1, rho_hat, eng.amplitudes, eng.amp_mask,
                                    eng.n_values)
               ELSE tr1
        rho_hat_mod == FourierModulus(eng.amp_mask, eng.amplitudes, rho_hat)
        rho_mod == ifftn(rho_hat_mod)
        support_star == eng.support
        tr3 == IF eng.monitor THEN monitor_real(tr2, rho_mod, support_star) ELSE tr2
    IN  [rho_mod |-> rho_mod, support_star |-> support_star, tr |-> tr3]

\* ER that leaves the density outside the support as it was
ERUpdateKeepsOutside(rho, rho_mod, support_star) == where(support_star, rho_mod, rho)

\* HIO with the operands of the feedback term exchanged
HIOUpdateSwapped(rho, rho_mod, support_star, beta) ==
    where(support_star, rho_mod,
          [g \in Grid |-> RSub(rho_mod[g], RMul(beta, rho[g]))])

\* self._rho_[:] = where(support_star, rho_mod, 0)
ERUpdate(rho, rho_mod, support_star) == where(support_star, rho_mod, Zeros)

\* self._rho_[:] = where(support_star, rho_mod, self._rho_ - beta * rho_mod)
HIOUpdate(rho, rho_mod, support_star, beta) ==
    where(support_star, rho_mod,
          [g \in Grid |-> RSub(rho[g], RMul(beta, rho_mod[g]))])

ERStep(eng) ==
    LET r == phase(eng)
    IN  [eng EXCEPT !.rho = ERUpdate(eng.rho, r.rho_mod, r.support_star),
                    !.tr = r.tr, !.prior = eng.rho, !.rho_mod = r.rho_mod]

HIOStep(eng, beta) ==
    LET r == phase(eng)
    IN  [eng EXCEPT !.rho = HIOUpdate(eng.rho, r.rho_mod, r.support_star, beta),
                    !.tr = r.tr, !.prior = eng.rho, !.rho_mod = r.rho_mod]

RECURSIVE ERLoopRun(_, _)
ERLoopRun(eng, n_loops) ==
    IF n_loops <= 0 THEN eng ELSE ERLoopRun(ERStep(eng), n_loops - 1)

RECURSIVE HIOLoopRun(_, _, _)
HIOLoopRun(eng, n_loops, beta) ==
    IF n_loops <= 0 THEN eng ELSE HIOLoopRun(HIOStep(eng, beta), n_loops - 1, beta)

(***************************************************************************)
(* Phaser.shrink_wrap.  scipy's gaussian_filter(mode='wrap', truncate=2):  *)
(* the kernel radius is int(truncate * sigma + 0.5); an axis whose sigma   *)
(* is at most 1e-15 is skipped; the weights exp(-x^2 / (2 sigma^2)) are    *)
(* normalised to sum 1 and are tabulated here to three decimals.            *)
(***************************************************************************)
Truncate == 2

GaussRadius(sigma) == (2 * Truncate * sigma[1] + sigma[2]) \div (2 * sigma[2])

\* weights of x = -2 .. 2 for sigma = 1, in 1/1000
GaussWeights(sigma) ==
    IF GaussRadius(sigma) = 0 THEN [x \in {0} |-> ROne]
    ELSE [x \in -2 .. 2 |->
            Rat(CASE IAbs(x) = 0 -> 404 [] IAbs(x) = 1 -> 244 [] OTHER -> 54,
                1000)]

gaussian_filter(a, sigma) ==
    IF ~RLess(RZero, sigma) THEN a
    ELSE LET w == GaussWeights(sigma)
         IN  ndarray([i \in Grid |->
                SumOver(DOMAIN w, [x \in DOMAIN w |-> RMul(w[x], a[(i + x) % AxisLen])])])

\* a threshold taken from the peak of the smoothed magnitude
ShrinkThresholdSmoothed(rho_abs, rho_gauss, cutoff) ==
    RMul(MaxOver(Grid, rho_gauss), cutoff)

\* rho_abs_.max() * cutoff: the peak of the unsmoothed magnitude
ShrinkThreshold(rho_abs, rho_gauss, cutoff) == RMul(MaxOver(Grid, rho_abs), cutoff)

\* support_new_ = rho_gauss_ > rho_abs_.max() * cutoff
ShrinkWrapSupport(rho, cutoff, sigma) ==
    LET rho_abs == ndarray([g \in Grid |-> RAbs(rho[g])])
        rho_gauss == gaussian_filter(rho_abs, sigma)
    IN  ndarray([g \in Grid |->
            RLess(ShrinkThreshold(rho_abs, rho_gauss, cutoff), rho_gauss[g])])

(***************************************************************************)
(* InitialState.                                                           *)
(***************************************************************************)
None == "None"

\* cp = None: no accelerated backend is importable
cp == FALSE

RelThreshold == Rat(1, 100)

\* the value generate_support_from_autocorrelation computes
AutocorrelationSupport(amplitudes, rel_threshold) ==
    LET intensities == [g \in Grid |->
                           IF isnan(amplitudes[g]) THEN RZero
                           ELSE RMul(amplitudes[g], amplitudes[g])]
        hat == fftn(intensities)
        autocorrelation == [k \in Grid |-> RAbs(hat[k])]
    IN  [k \in Grid |->
            RLess(RMul(rel_threshold, MaxOver(Grid, autocorrelation)), autocorrelation[k])]

\* support * np.random.rand(shape): one uniform draw per grid point
RandomRho(support, rand) == [g \in Grid |-> IF support[g] THEN rand[g] ELSE RZero]

\* `target[:] = value` on a field that holds None raises TypeError
SetItemRaises(ref) == ref = None

(***************************************************************************)
(* Inputs.                                                                 *)
(***************************************************************************)
AmpValues == {NaN, RInt(2)}
RhoValues == {RInt(-1), RZero, ROne}
RandValues == {RZero, Rat(1, 2)}
MutValues == {RZero, ROne}
Betas == {Rat(1, 2)}
Cutoffs == {Rat(1, 2), ROne}
Sigmas == {Rat(1, 10), ROne}
Devices == {"auto", "cpu", "gpu", "tpu"}
Phasers == {1, 2}
AllFalse == [g \in Grid |-> FALSE]

NoPhaser ==
    [alive |-> FALSE, amplitudes |-> None, support |-> None, rho |-> None,
     amp_mask |-> AllFalse, n_values |-> 0, monitor |-> FALSE, is_gpu |-> FALSE,
     tr |-> NoTraces]

\* what the step just taken was, and the locals of the call it made
NoCall ==
    [op |-> "init", ph |-> 0, prior |-> Zeros, rho_mod |-> Zeros,
     beta |-> RZero, n |-> 0, cutoff |-> RZero, sigma |-> RZero,
     device |-> "", accessed |-> FALSE, flag |-> FALSE]

Called(op, ph) == [NoCall EXCEPT !.op = op, !.ph = ph]

\* InitialState.__init__: shift(x) is ifftshift (a new array) or x itself
InitOver(amps, rhos) ==
    \E is_ifftshifted \in BOOLEAN, hasSupport \in BOOLEAN, hasRho \in BOOLEAN,
       amplitudes \in [Grid -> amps], support \in [Grid -> BOOLEAN],
       rho \in [Grid -> rhos] :
        LET shift(x) == IF is_ifftshifted THEN x ELSE ifftshift(x)
        IN  /\ hasSupport \/ support = AllFalse
            /\ hasRho \/ rho = Zeros
            /\ heap = [amp |-> shift(amplitudes), sup |-> shift(support),
                       rho |-> shift(rho), ext |-> Zeros]
            /\ ist = [amplitudes |-> "amp",
                      support |-> IF hasSupport THEN "sup" ELSE None,
                      rho |-> IF hasRho THEN "rho" ELSE None]
            /\ given = [support |-> hasSupport, rho |-> hasRho]
            /\ phasers = [p \in Phasers |-> NoPhaser]
            /\ handle = [ref |-> None, kind |-> "none", by |-> "none"]
            /\ outcome = "ok"
            /\ nderive = 0
            /\ nsteps = [p \in Phasers |-> 0]
            /\ nmut = 0
            /\ last = NoCall

\* an accessor's return to the caller: the buffer itself, or fftshift of it in
\* a new array; `by` is the class whose accessor returned it
Return(by, ref, kind, ifftshifted) ==
    IF ifftshifted
    THEN /\ handle' = [ref |-> ref, kind |-> kind, by |-> by]
         /\ heap' = heap
    ELSE /\ handle' = [ref |-> "ext", kind |-> kind, by |-> by]
         /\ heap' = [heap EXCEPT !.ext = fftshift(heap[ref])]

Raise(err) == outcome' = err

get_amplitudes(ifftshifted) ==
    /\ Return("InitialState", ist.amplitudes, "amp", ifftshifted)
    /\ outcome' = "ok"
    /\ last' = [Called("IS.get_amplitudes", 0) EXCEPT !.accessed = TRUE,
                                                      !.flag = ifftshifted]
    /\ UNCHANGED <<ist, given, phasers, nderive, nsteps, nmut>>

\* get_support: a None support calls generate_support_from_autocorrelation,
\* whose `self._support_[:] = ...` then raises on None
get_support(ifftshifted) ==
    /\ ist.support # None \/ nderive < MaxDerive
    /\ IF ist.support = None
       THEN /\ nderive' = nderive + 1
            /\ IF SetItemRaises(ist.support)
               THEN Raise("TypeError") /\ UNCHANGED <<heap, handle>>
               ELSE /\ heap' = [heap EXCEPT ![ist.support] =
                                   AutocorrelationSupport(heap[ist.amplitudes], RelThreshold)]
                    /\ handle' = [ref |-> ist.support, kind |-> "sup",
                                   by |-> "InitialState"]
                    /\ outcome' = "ok"
       ELSE /\ Return("InitialState", ist.support, "sup", ifftshifted)
            /\ outcome' = "ok"
            /\ nderive' = nderive
    /\ last' = [Called("IS.get_support", 0) EXCEPT !.accessed = TRUE,
                                                   !.flag = ifftshifted]
    /\ UNCHANGED <<ist, given, phasers, nsteps, nmut>>

\* generate_support_from_autocorrelation called by the user
generate_support_from_autocorrelation ==
    /\ IF SetItemRaises(ist.support)
       THEN Raise("TypeError") /\ UNCHANGED heap
       ELSE /\ heap' = [heap EXCEPT ![ist.support] =
                           AutocorrelationSupport(heap[ist.amplitudes], RelThreshold)]
            /\ outcome' = "ok"
    /\ last' = Called("IS.generate_support", 0)
    /\ UNCHANGED <<ist, given, phasers, handle, nderive, nsteps, nmut>>

\* the body of generate_random_rho, shared by the direct call and get_rho
RandomRhoBody(rand) ==
    /\ ist.support # None \/ nderive < MaxDerive
    /\ IF ist.support = None
       THEN /\ nderive' = nderive + 1
            /\ Raise("TypeError")
            /\ UNCHANGED heap
       ELSE /\ nderive' = nderive
            /\ IF SetItemRaises(ist.rho)
               THEN Raise("TypeError") /\ UNCHANGED heap
               ELSE /\ heap' = [heap EXCEPT ![ist.rho] = RandomRho(heap[ist.support], rand)]
                    /\ outcome' = "ok"

generate_random_rho ==
    /\ \E rand \in [Grid -> RandValues] : RandomRhoBody(rand)
    /\ last' = [Called("IS.generate_random_rho", 0) EXCEPT !.accessed = TRUE]
    /\ UNCHANGED <<ist, given, phasers, handle, nsteps, nmut>>

get_rho(ifftshifted) ==
    /\ IF ist.rho = None
       THEN /\ \E rand \in [Grid -> RandValues] : RandomRhoBody(rand)
            /\ UNCHANGED handle
       ELSE /\ Return("InitialState", ist.rho, "rho", ifftshifted)
            /\ outcome' = "ok"
            /\ nderive' = nderive
    /\ last' = [Called("IS.get_rho", 0) EXCEPT !.accessed = TRUE,
                                               !.flag = ifftshifted]
    /\ UNCHANGED <<ist, given, phasers, nsteps, nmut>>

(***************************************************************************)
(* Phaser.                                                                 *)
(***************************************************************************)
\* device = "gpu" if cp else "cpu"
ResolveDevice(device) == IF device = "auto" THEN (IF cp THEN "gpu" ELSE "cpu") ELSE device

\* Phaser.__init__: the device checks, then the three accessors with
\* ifftshifted=True, each handing over InitialState's own array
NewPhaser(p, device, monitor) ==
    /\ ~phasers[p].alive
    /\ ist.support # None \/ nderive < MaxDerive
    /\ IF device \notin {"auto", "gpu", "cpu"}
       THEN /\ Raise("ValueError")
            /\ last' = [Called("Phaser", p) EXCEPT !.device = device]
            /\ UNCHANGED <<phasers, nderive>>
       ELSE IF device = "gpu" /\ ~cp
       THEN /\ Raise("GPUNotAvailabeError")
            /\ last' = [Called("Phaser", p) EXCEPT !.device = device]
            /\ UNCHANGED <<phasers, nderive>>
       ELSE /\ last' = [Called("Phaser", p) EXCEPT !.device = device,
                                                   !.accessed = TRUE]
            /\ IF ist.support = None
               THEN /\ nderive' = nderive + 1
                    /\ Raise("TypeError")
                    /\ UNCHANGED phasers
               ELSE /\ nderive' = nderive
                    /\ IF SetItemRaises(ist.rho)
                       THEN Raise("TypeError") /\ UNCHANGED phasers
                       ELSE /\ outcome' = "ok"
                            /\ phasers' = [phasers EXCEPT ![p] =
                                  [alive |-> TRUE,
                                   amplitudes |-> ist.amplitudes,
                                   support |-> ist.support,
                                   rho |-> ist.rho,
                                   amp_mask |-> [g \in Grid |->
                                                    isfinite(heap[ist.amplitudes][g])],
                                   n_values |-> CountTrue([g \in Grid |->
                                                    isfinite(heap[ist.amplitudes][g])]),
                                   monitor |-> monitor,
                                   is_gpu |-> ResolveDevice(device) = "gpu",
                                   tr |-> NoTraces]]
    /\ UNCHANGED <<heap, ist, given, handle, nsteps, nmut>>

\* the engine as a call on phaser p reads it
Eng(p) ==
    [rho |-> heap[phasers[p].rho], support |-> heap[phasers[p].support],
     amplitudes |-> heap[phasers[p].amplitudes], amp_mask |-> phasers[p].amp_mask,
     n_values |-> phasers[p].n_values, monitor |-> phasers[p].monitor,
     tr |-> phasers[p].tr, prior |-> heap[phasers[p].rho], rho_mod |-> Zeros]

\* `self._rho_[:] = ...` writes through the reference; the lists are the phaser's
Commit(p, e, n) ==
    /\ heap' = [heap EXCEPT ![phasers[p].rho] = e.rho]
    /\ phasers' = [phasers EXCEPT ![p].tr = e.tr]
    /\ nsteps' = [nsteps EXCEPT ![p] = @ + n]
    /\ outcome' = "ok"
    /\ UNCHANGED <<ist, given, handle, nderive, nmut>>

StepsLeft == MaxSteps - (nsteps[1] + nsteps[2])

ER(p) ==
    /\ phasers[p].alive
    /\ StepsLeft >= 1
    /\ LET e == ERStep(Eng(p))
       IN  /\ Commit(p, e, 1)
           /\ last' = [Called("ER", p) EXCEPT !.prior = e.prior, !.rho_mod = e.rho_mod,
                                              !.n = 1]

HIO(p, beta) ==
    /\ phasers[p].alive
    /\ StepsLeft >= 1
    /\ LET e == HIOStep(Eng(p), beta)
       IN  /\ Commit(p, e, 1)
           /\ last' = [Called("HIO", p) EXCEPT !.prior = e.prior, !.rho_mod = e.rho_mod,
                                               !.beta = beta, !.n = 1]

ER_loop(p, n_loops) ==
    /\ phasers[p].alive
    /\ StepsLeft >= n_loops
    /\ LET e == ERLoopRun(Eng(p), n_loops)
       IN  /\ Commit(p, e, n_loops)
           /\ last' = [Called("ER_loop", p) EXCEPT !.prior = e.prior,
                                                   !.rho_mod = e.rho_mod, !.n = n_loops]

HIO_loop(p, n_loops, beta) ==
    /\ phasers[p].alive
    /\ StepsLeft >= n_loops
    /\ LET e == HIOLoopRun(Eng(p), n_loops, beta)
       IN  /\ Commit(p, e, n_loops)
           /\ last' = [Called("HIO_loop", p) EXCEPT !.prior = e.prior,
                                                    !.rho_mod = e.rho_mod,
                                                    !.beta = beta, !.n = n_loops]

\* self._support_[:] = support_new_
shrink_wrap(p, cutoff, sigma) ==
    /\ phasers[p].alive
    /\ heap' = [heap EXCEPT ![phasers[p].support] =
                   ShrinkWrapSupport(heap[phasers[p].rho], cutoff, sigma)]
    /\ outcome' = "ok"
    /\ last' = [Called("shrink_wrap", p) EXCEPT !.prior = heap[phasers[p].rho],
                                                !.cutoff = cutoff, !.sigma = sigma]
    /\ UNCHANGED <<ist, given, phasers, handle, nderive, nsteps, nmut>>

\* np.array(list): a new array each time; nothing of the session changes
get_support_sizes(p) ==
    /\ phasers[p].alive
    /\ UNCHANGED vars

get_Fourier_errs(p) ==
    /\ phasers[p].alive
    /\ UNCHANGED vars

get_real_errs(p) ==
    /\ phasers[p].alive
    /\ UNCHANGED vars

Phaser_get_support(p, ifftshifted) ==
    /\ phasers[p].alive
    /\ Return("Phaser", phasers[p].support, "sup", ifftshifted)
    /\ outcome' = "ok"
    /\ last' = [Called("get_support", p) EXCEPT !.flag = ifftshifted]
    /\ UNCHANGED <<ist, given, phasers, nderive, nsteps, nmut>>

Phaser_get_rho(p, ifftshifted) ==
    /\ phasers[p].alive
    /\ Return("Phaser", phasers[p].rho, "rho", ifftshifted)
    /\ outcome' = "ok"
    /\ last' = [Called("get_rho", p) EXCEPT !.flag = ifftshifted]
    /\ UNCHANGED <<ist, given, phasers, nderive, nsteps, nmut>>

(***************************************************************************)
(* The caller writes one entry of the array an accessor returned.          *)
(***************************************************************************)
Mutate(g, v) ==
    /\ handle.ref # None
    /\ nmut < MaxMutations
    /\ heap[handle.ref][g] # v
    /\ heap' = [heap EXCEPT ![handle.ref][g] = v]
    /\ nmut' = nmut + 1
    /\ outcome' = "ok"
    /\ last' = Called("mutate", 0)
    /\ UNCHANGED <<ist, given, phasers, handle, nderive, nsteps>>

\* one session: every operation of both classes, two engines built from the
\* one InitialState, and a caller that writes into what accessors return
Init == InitOver({NaN, ROne}, {RZero, ROne})

Next ==
    \/ \E f \in BOOLEAN : get_amplitudes(f)
    \/ \E f \in BOOLEAN : get_support(f)
    \/ \E f \in BOOLEAN : get_rho(f)
    \/ generate_support_from_autocorrelation
    \/ generate_random_rho
    \/ \E p \in Phasers, d \in Devices, m \in BOOLEAN : NewPhaser(p, d, m)
    \/ \E p \in Phasers : ER(p)
    \/ \E p \in Phasers, beta \in Betas : HIO(p, beta)
    \/ \E p \in Phasers, n \in 0 .. MaxLoops : ER_loop(p, n)
    \/ \E p \in Phasers, n \in 0 .. MaxLoops, beta \in Betas : HIO_loop(p, n, beta)
    \/ \E p \in Phasers, c \in Cutoffs, s \in Sigmas : shrink_wrap(p, c, s)
    \/ \E p \in Phasers : get_support_sizes(p)
    \/ \E p \in Phasers : get_Fourier_errs(p)
    \/ \E p \in Phasers : get_real_errs(p)
    \/ \E p \in Phasers, f \in BOOLEAN : Phaser_get_support(p, f)
    \/ \E p \in Phasers, f \in BOOLEAN : Phaser_get_rho(p, f)
    \/ \E g \in Grid : \E v \in BOOLEAN : handle.kind = "sup" /\ Mutate(g, v)
    \/ \E g \in Grid : \E v \in MutValues : handle.kind \in {"amp", "rho"} /\ Mutate(g, v)

Spec == Init /\ [][Next]_vars

\* one engine, iterated: the inputs range wider and nothing is shared
InitEngine == InitOver(AmpValues, RhoValues)

NextEngine ==
    \/ \E d \in Devices, m \in BOOLEAN : NewPhaser(1, d, m)
    \/ ER(1)
    \/ \E beta \in Betas : HIO(1, beta)
    \/ \E n \in 0 .. MaxLoops : ER_loop(1, n)
    \/ \E n \in 0 .. MaxLoops, beta \in Betas : HIO_loop(1, n, beta)
    \/ \E c \in Cutoffs, s \in Sigmas : shrink_wrap(1, c, s)
    \/ get_support_sizes(1)
    \/ get_Fourier_errs(1)
    \/ get_real_errs(1)

SpecEngine == InitEngine /\ [][NextEngine]_vars

\* the preparer and its callers: accessors, lazy derivation, construction of
\* an engine, and writes into the arrays the accessors returned
NextPrep ==
    \/ \E f \in BOOLEAN : get_amplitudes(f)
    \/ \E f \in BOOLEAN : get_support(f)
    \/ \E f \in BOOLEAN : get_rho(f)
    \/ generate_support_from_autocorrelation
    \/ generate_random_rho
    \/ \E d \in Devices, m \in BOOLEAN : NewPhaser(1, d, m)
    \/ \E f \in BOOLEAN : Phaser_get_support(1, f)
    \/ \E f \in BOOLEAN : Phaser_get_rho(1, f)
    \/ \E g \in Grid : \E v \in BOOLEAN : handle.kind = "sup" /\ Mutate(g, v)
    \/ \E g \in Grid : \E v \in MutValues : handle.kind \in {"amp", "rho"} /\ Mutate(g, v)

SpecPrep == Init /\ [][NextPrep]_vars

\* two engines built from one InitialState
NextShared ==
    \/ \E p \in Phasers, d \in Devices, m \in BOOLEAN : NewPhaser(p, d, m)
    \/ \E p \in Phasers : ER(p)
    \/ \E p \in Phasers, beta \in Betas : HIO(p, beta)
    \/ \E p \in Phasers, c \in Cutoffs, s \in Sigmas : shrink_wrap(p, c, s)

SpecShared == Init /\ [][NextShared]_vars

(***************************************************************************)
(* Properties.                                                             *)
(***************************************************************************)
RhoOf(p) == heap[phasers[p].rho]
SupportOf(p) == heap[phasers[p].support]
AmplitudesOf(p) == heap[phasers[p].amplitudes]

\* the last call was a step of algorithm `op`, single or as the last of a loop
Stepped(op, p) ==
    /\ last.ph = p
    /\ \/ last.op = op
       \/ last.op = op \o "_loop" /\ last.n >= 1

Outside(p) == {g \in Grid : ~SupportOf(p)[g]}
Inside(p) == {g \in Grid : SupportOf(p)[g]}

UnknownModes(p) == {k \in Grid : isnan(AmplitudesOf(p)[k])}

Magnitude(a) == [g \in Grid |-> RAbs(a[g])]
Peak(a) == MaxOver(Grid, Magnitude(a))

\* shrink_wrap was the last call, with cutoff 1 and a sigma too small to smooth
SharpShrinkWrap(p) ==
    /\ last.op = "shrink_wrap"
    /\ last.ph = p
    /\ last.cutoff = ROne
    /\ GaussRadius(last.sigma) = 0

\* C7, as claimed: after shrink_wrap(cutoff=1, sigma ~ 0) the support is true
\* exactly at the grid points attaining the maximum of |density|.
C7_AsClaimed ==
    \A p \in Phasers :
        SharpShrinkWrap(p) =>
            \A g \in Grid : SupportOf(p)[g] <=> (Magnitude(RhoOf(p))[g] = Peak(RhoOf(p)))

\* C7, amended: after shrink_wrap(cutoff=1, sigma ~ 0) the support is false at
\* every grid point, the comparison being strict; in general the new support
\* is smoothed > cutoff * max(|density|) with the peak of the unsmoothed
\* magnitude, a function of the density alone.
C7_ShrinkWrapStrict ==
    \A p \in Phasers :
        /\ SharpShrinkWrap(p) => \A g \in Grid : ~SupportOf(p)[g]
        /\ last.op = "shrink_wrap" /\ last.ph = p =>
               \A g \in Grid :
                   SupportOf(p)[g] <=>
                       RLess(RMul(last.cutoff, Peak(RhoOf(p))),
                             gaussian_filter(Magnitude(RhoOf(p)), last.sigma)[g])

\* a sharp shrink_wrap of a density with a single peak, on a support that was true there
C7_Witness ==
    /\ SharpShrinkWrap(1)
    /\ \E g \in Grid : Magnitude(RhoOf(1))[g] = Peak(RhoOf(1)) /\ RhoOf(1)[g] # RZero
    /\ \E g \in Grid : Magnitude(RhoOf(1))[g] # Peak(RhoOf(1))

\* C8: each monitoring list is as long as the number of ER / HIO steps the
\* engine has run (a loop of n counting n) when monitoring is on, and empty
\* when it is off; shrink_wrap and the accessors append nothing.
C8_TraceLengths ==
    \A p \in Phasers :
        LET expected == IF phasers[p].monitor THEN nsteps[p] ELSE 0
        IN  /\ Len(phasers[p].tr.suppS) = expected
            /\ Len(phasers[p].tr.distF) = expected
            /\ Len(phasers[p].tr.distR) = expected

\* a monitored engine after a loop of two steps
C8_Witness ==
    /\ phasers[1].monitor
    /\ last.op \in {"ER_loop", "HIO_loop"}
    /\ last.n = 2
    /\ nsteps[1] = 2
    /\ Len(phasers[1].tr.distR) = 2

\* the last entry of a monitoring list
Latest(l) == l[Len(l)]

\* the last three appends were, in this order: support size, Fourier
\* residual, real residual
AppendedInOrder(p) ==
    LET log == phasers[p].tr.log
    IN  /\ Len(log) >= 3
        /\ SubSeq(log, Len(log) - 2, Len(log)) = <<"suppS", "distF", "distR">>

\* C10, as claimed: the real residual a monitored step appends is the norm,
\* outside the support, of the density as the step has updated it.
C10_AsClaimed ==
    \A p \in Phasers :
        phasers[p].monitor /\ (Stepped("ER", p) \/ Stepped("HIO", p)) =>
            /\ Latest(phasers[p].tr.distR)
                   = norm(RhoOf(p), [g \in Grid |-> ~SupportOf(p)[g]])
            /\ AppendedInOrder(p)

\* C10, amended: the real residual a monitored step appends is computed inside
\* the Fourier projection, before the step applies the support: it is the
\* norm, outside the support, of the projected density, and it is appended
\* after the support-size entry and the Fourier-residual entry of the call.
C10_RealResidualOfProjection ==
    \A p \in Phasers :
        phasers[p].monitor /\ (Stepped("ER", p) \/ Stepped("HIO", p)) =>
            /\ Latest(phasers[p].tr.distR)
                   = norm(last.rho_mod, [g \in Grid |-> ~SupportOf(p)[g]])
            /\ AppendedInOrder(p)

\* a monitored ER step whose projection was not zero outside the support
C10_Witness ==
    /\ phasers[1].monitor
    /\ Stepped("ER", 1)
    /\ Outside(1) # {}
    /\ Inside(1) # {}
    /\ Latest(phasers[1].tr.distR).sqrt # RZero

EngineOps == {"ER", "HIO", "ER_loop", "HIO_loop", "shrink_wrap"}

\* C3: the density and support of an engine are its own: an ER, HIO or
\* shrink_wrap call on one engine leaves the density and support observed
\* through another engine unchanged.
C3_ExclusiveOwnership ==
    [][\A p, q \in Phasers :
          (p # q /\ phasers[q].alive /\ last'.op \in EngineOps /\ last'.ph = p) =>
              /\ heap'[phasers[q].rho] = heap[phasers[q].rho]
              /\ heap'[phasers[q].support] = heap[phasers[q].support]]_vars

\* C4: with no support supplied, the first support access derives the support
\* from the autocorrelation and returns it, the derivation runs exactly once,
\* and it never runs when a support was supplied.
C4_LazySupportOnce ==
    /\ given.support => nderive = 0
    /\ ~given.support /\ nderive >= 1 =>
           /\ nderive = 1
           /\ ist.support # None
           /\ last.op = "IS.get_support" => outcome = "ok" /\ handle.kind = "sup"

\* the buffers InitialState holds
Buffers == {ist.amplitudes, ist.support, ist.rho} \ {None}

\* C5: what an InitialState accessor returns is a copy for either value of the
\* layout flag: a write into it changes no buffer of the InitialState.
C5_AccessorsReturnCopies ==
    [][(last'.op = "mutate" /\ handle.by = "InitialState") =>
          \A b \in Buffers : heap'[b] = heap[b]]_vars

\* C9: an unknown device selector fails with the configuration error and
\* "gpu" without a backend with the device-unavailable error, both before the
\* InitialState is accessed; "auto" never fails and resolves to cpu.
C9_DeviceSelection ==
    last.op = "Phaser" =>
        /\ last.device \notin {"auto", "cpu", "gpu"} =>
               outcome = "ValueError" /\ ~last.accessed /\ nderive = 0
        /\ last.device = "gpu" =>
               outcome = "GPUNotAvailabeError" /\ ~last.accessed /\ nderive = 0
        /\ last.device = "auto" =>
               /\ outcome = "ok"
               /\ phasers[last.ph].alive
               /\ ~phasers[last.ph].is_gpu

====
